---- MODULE Spec2Model ----
(***************************************************************************)
(* AudioTranscriber (src/main.py): the pipeline of main() -- pre-flight    *)
(* checks, audio extraction, size check, direct or segmented               *)
(* transcription, aggregation, persistence, summary, cleanup -- and the    *)
(* windowing algorithm of split_audio().                                   *)
(*                                                                         *)
(* Texts are sequences of one-character strings.  A file size is a record  *)
(* [mib, rem] standing for mib * 2^20 + rem bytes (0 <= rem < 2^20), so    *)
(* that sizes beyond 2^31 bytes stay representable.  Paths are sequences   *)
(* of tokens.  The remote services, the decoder/encoder and the file       *)
(* system's delete are the environment: their outcomes are chosen          *)
(* nondeterministically.  Writing an output file is taken to succeed.      *)
(***************************************************************************)
EXTENDS Integers, Sequences, FiniteSets, TLC

(* ------------------------------ bounds --------------------------------- *)
\* largest number of full windows a modelled audio duration spans
MaxWindows == 2
\* iterations of the split_audio loop followed beyond MaxWindows
MaxExtraIter == 2
\* small byte budgets (max_size_bytes) explored for split_audio: -17..MaxSmallBudget
MaxSmallBudget == 49

(* ------------------------- program constants --------------------------- *)
MAX_SIZE_MB == 25
DEFAULT_SAFETY_MARGIN == 5000
export_bitrate_kbps == 128
MiB == 1048576

SUPPORTED_LANGUAGES ==
  {"af", "ar", "hy", "az", "be", "bs", "bg", "ca", "zh", "hr", "cs", "da",
   "nl", "en", "et", "fi", "fr", "gl", "de", "el", "he", "hi", "hu", "is",
   "id", "it", "ja", "kn", "kk", "ko", "lv", "lt", "mk", "ms", "mr", "mi",
   "ne", "no", "fa", "pl", "pt", "ro", "ru", "sr", "sk", "sl", "es", "sw",
   "sv", "tl", "ta", "th", "tr", "uk", "ur", "vi", "cy"}

(* ------------------------------ values --------------------------------- *)
\* Python's None and a returned value
None == [some |-> FALSE, v |-> <<>>]
Some(t) == [some |-> TRUE, v |-> t]
\* Python truthiness of an Optional[str]: None and "" are both falsy
Truthy(r) == r.some /\ r.v # <<>>

NL == "\n"
\* texts the transcription service may return
Texts == {<<>>, <<"a">>, <<"b">>}
\* outcome of one transcribe_audio call: None on any exception, else the text
TranscribeResults == {None} \cup {Some(t) : t \in Texts}
\* message contents the chat completion may return (before .strip())
RawSummaries == {<<>>, <<" ">>, <<"s">>, <<" ", "s", NL>>}

IsSpace(c) == c \in {" ", NL}

RECURSIVE LStrip(_)
LStrip(t) == IF t # <<>> /\ IsSpace(Head(t)) THEN LStrip(Tail(t)) ELSE t

RECURSIVE RStrip(_)
RStrip(t) ==
  IF t # <<>> /\ IsSpace(t[Len(t)]) THEN RStrip(SubSeq(t, 1, Len(t) - 1)) ELSE t

\* str.strip()
Strip(t) == RStrip(LStrip(t))

\* sep.join(l)
RECURSIVE Join(_, _)
Join(sep, l) ==
  IF l = <<>> THEN <<>>
  ELSE IF Len(l) = 1 THEN l[1]
  ELSE l[1] \o sep \o Join(sep, Tail(l))

(* ------------------------------ paths ---------------------------------- *)
TRANSCRIPTION_SUFFIX == "_transcription.txt"
SUMMARY_SUFFIX == "_summary.txt"

\* values of --output: absent, or a path given as its tokens
OutputOptions ==
  {None,
   Some(<<"out", TRANSCRIPTION_SUFFIX>>),
   Some(<<"out", ".txt">>),
   Some(<<"notes", TRANSCRIPTION_SUFFIX, ".bak">>)}

\* str.replace("_transcription.txt", "_summary.txt"): every occurrence
ReplaceSuffix(path) ==
  [i \in DOMAIN path |->
     IF path[i] = TRANSCRIPTION_SUFFIX THEN SUMMARY_SUFFIX ELSE path[i]]

\* generate_output_paths: <<transcription_path, summary_path>>
generate_output_paths(provided_output_path) ==
  LET transcription ==
        IF Truthy(provided_output_path)
        THEN provided_output_path.v
        ELSE <<"input", "_", "timestamp", TRANSCRIPTION_SUFFIX>>
  IN  <<transcription, ReplaceSuffix(transcription)>>

(* ------------------------------ sizes ---------------------------------- *)
\* value of file_size_in_mb(path) <= n, for an integer n
SizeMbLeq(size, n) == size.mib < n \/ (size.mib = n /\ size.rem = 0)

\* a variant that compares against one megabyte less than the limit
WithinLimit_m(size) == SizeMbLeq(size, MAX_SIZE_MB - 1)

\* the comparison main makes: current_size_mb <= max_size_bytes, where
\* max_size_bytes = MAX_SIZE_MB * 1024 * 1024
WithinLimit(size) == SizeMbLeq(size, MAX_SIZE_MB * 1024 * 1024)

\* current_size before the size check has run
NotMeasured == [mib |-> 0 - 1, rem |-> 0]

\* sizes of the working audio file the model explores
Sizes ==
  {[mib |-> 0, rem |-> 0], [mib |-> MAX_SIZE_MB - 1, rem |-> 7],
   [mib |-> MAX_SIZE_MB, rem |-> 0], [mib |-> MAX_SIZE_MB, rem |-> 1],
   [mib |-> MAX_SIZE_MB + 1, rem |-> 0],
   [mib |-> MAX_SIZE_MB * MiB, rem |-> 0],
   [mib |-> MAX_SIZE_MB * MiB, rem |-> 1],
   [mib |-> MAX_SIZE_MB * MiB + 1, rem |-> 0]}

(* --------------------- split_audio: arithmetic -------------------------- *)
Max(a, b) == IF a >= b THEN a ELSE b
Min(a, b) == IF a <= b THEN a ELSE b

RECURSIVE Pow2(_)
Pow2(n) == IF n = 0 THEN 1 ELSE 2 * Pow2(n - 1)

RECURSIVE FloorLog2(_)
FloorLog2(b) == IF b < 2 THEN 0 ELSE 1 + FloorLog2(b \div 2)

\* 2^k mod 125
RECURSIVE Pow2Mod125(_)
Pow2Mod125(k) == IF k = 0 THEN 1 ELSE (2 * Pow2Mod125(k - 1)) % 125

\* export_bitrate_bps = (export_bitrate_kbps * 1000) / 8, the float 16000.0
export_bitrate_bps == (export_bitrate_kbps * 1000) \div 8

\* bytes per millisecond at the export bitrate: x / export_bitrate_bps * 1000
\* is x / BytesPerMs
BytesPerMs == export_bitrate_bps \div 1000

\* IEEE-754 binary64 evaluation of (b / 16000.0) * 1000 for an integer
\* 0 < b < 2^25: TRUE iff the computed product is below the exact b / 16.
\* 16000 = 125 * 2^7 and 1000 = 125 * 2^3, and scaling by a power of two is
\* exact, so the product is fl(fl(b / 125) * 125) / 16.  With eb and eq the
\* binary exponents of b and of b / 125 (eb - eq = s), the quotient's
\* 53-bit significand is b * 2^k / 125 rounded to nearest, k = 52 - eq; its
\* rounding remainder is rem / 125 units in the last place.  The product
\* rounds back below b exactly when the quotient was rounded down by more
\* than half of the spacing of doubles just below b.
ProductBelowExact(b) ==
  LET eb == FloorLog2(b)
      s == IF 64 * b < 125 * Pow2(eb) THEN 7 ELSE 6
      k == 52 - eb + s
      rem == ((b % 125) * Pow2Mod125(k)) % 125
  IN  /\ 2 * rem < 125
      /\ rem > 32
      /\ (s = 6 \/ b = Pow2(eb))

\* a variant that rounds the product up instead of truncating it
TruncProduct_m(b) == (b + BytesPerMs - 1) \div BytesPerMs

\* int(x): truncation toward zero of the computed product, for b > 0
TruncProduct(b) ==
  (b \div BytesPerMs)
    - (IF b % BytesPerMs = 0 /\ ProductBelowExact(b) THEN 1 ELSE 0)

\* segment_duration_ms = int((max_size_bytes / export_bitrate_bps) * 1000)
SegmentDurationMs(max_size_bytes) ==
  IF max_size_bytes = 0 THEN 0
  ELSE IF max_size_bytes > 0 THEN TruncProduct(max_size_bytes)
  ELSE 0 - TruncProduct(0 - max_size_bytes)

\* a variant that forgets to convert the megabytes to bytes
MaxSizeBytes_m(mb, margin) == mb - margin

\* max_size_bytes = max_size_mb * 1024 * 1024 - safety_margin
MaxSizeBytes(mb, margin) == mb * 1024 * 1024 - margin

\* the part of the timeline audio[start_ms:end_ms] holds, for
\* 0 <= start_ms <= end_ms: the slice is clamped at the end of the audio
SliceOf(w, len) == [lo |-> Min(w.start, len), hi |-> Min(w.end, len)]

\* byte budgets explored: small ones around zero, and budgets at which the
\* float product is inexact
Budgets == (0 - 17 .. MaxSmallBudget) \cup {16000, 16016, 16017, 32032}

\* <<max_size_mb, safety_margin>> pairs split_audio is called with
SplitParams ==
  {<<MAX_SIZE_MB, DEFAULT_SAFETY_MARGIN>>} \cup {<<1, MiB - b>> : b \in Budgets}

\* durations len(audio) explored for a budget: around multiples of b / 16
Durations(mb, margin) ==
  LET q == Max(1, MaxSizeBytes(mb, margin) \div BytesPerMs)
  IN  {d \in {k * q + r : k \in 0 .. MaxWindows, r \in {0 - 1, 0, 1}} : d >= 0}

IterCap == MaxWindows + MaxExtraIter

(* ------------------------------ inputs --------------------------------- *)
VIDEO_EXTENSIONS == {".mp4", ".mov", ".avi", ".mkv", ".flv", ".wmv"}

\* extensions of the --input paths explored
InputExtensions == {".mp4", ".MKV", ".mp3", ".flac"}

\* str.lower() on the explored extensions
Lower(ext) == IF ext = ".MKV" THEN ".mkv" ELSE ext

\* is_video_file, on the extension os.path.splitext returns
is_video_file(ext) == Lower(ext) \in VIDEO_EXTENSIONS

\* language codes given on the command line
LangChoices == {"en", "xx"}

\* remote requests are identified by what they carry: the whole working
\* audio file, or the segment with a 1-based ordinal
WholeFile == 0

(* ------------------------------- state --------------------------------- *)
VARIABLES
  pc,                   \* position of the run
  mode,                 \* "main": a run of main; "split": split_audio alone
  input_ext,            \* extension of args.input
  input_exists,         \* the input file is on disk
  api_key,              \* OPENAI_API_KEY is set
  args,                 \* parsed arguments
  transcription_path, summary_path,
  audio_file_path,      \* "none" (None), "input" or "temp"
  current_size,         \* size of the working audio file
  transcription,        \* result of the whole-file transcribe_audio call
  segments,             \* main: the list split_audio returned
  seg_idx,              \* main: position of the for loop over segments
  all_transcriptions,
  combined_transcription,
  summary,
  max_size_mb, safety_margin,   \* split_audio: parameters
  audio_len,            \* split_audio: len(audio), in ms
  segment_duration_ms,
  start_ms,
  split_segments,       \* split_audio: its local list `segments`
  split_outcome,        \* "none", "running", "returned", "decode_failed", "export_failed"
  extract_outcome,      \* "none", "ok", "failed"
  remove_outcome,       \* os.remove in the cleanup: "none", "removed", "failed"
  fs,                   \* output files: path -> content
  temp_exists,          \* the NamedTemporaryFile is on disk
  seg_files,            \* ordinals of the _partN.mp3 files on disk
  sent,                 \* transcription requests issued, in order
  replies,              \* what each transcribe_audio call returned, in order
  inflight,             \* remote requests issued and not yet returned
  summarize_calls,      \* summarization requests issued
  summary_input,        \* text passed to summarize_transcript
  persisted,            \* content given to the last write of the transcript
  exit_code             \* "running", "returned" (main returned), "error" (parser.error)

envVars == <<input_ext, input_exists, api_key>>
pathVars == <<transcription_path, summary_path>>
directVars == <<transcription>>
segVars == <<segments, seg_idx, all_transcriptions, combined_transcription>>
splitVars == <<max_size_mb, safety_margin, audio_len, segment_duration_ms,
               start_ms, split_segments, split_outcome>>
remoteVars == <<sent, replies, inflight, summarize_calls, summary_input>>
outVars == <<fs, persisted>>
Measured == current_size # NotMeasured

vars == <<pc, mode, envVars, args, pathVars, audio_file_path, current_size,
          directVars, segVars, summary, splitVars, extract_outcome,
          remove_outcome, outVars,
          temp_exists, seg_files, remoteVars, exit_code>>

NoArgs == [audio_language |-> "", transcript_language |-> "",
           summary_language |-> "", output |-> None]

\* everything but pc, mode and the inputs
InitLocals ==
  /\ args = NoArgs
  /\ transcription_path = <<>>
  /\ summary_path = <<>>
  /\ audio_file_path = "none"
  /\ current_size = NotMeasured
  /\ transcription = None
  /\ segments = <<>>
  /\ seg_idx = 0
  /\ all_transcriptions = <<>>
  /\ combined_transcription = <<>>
  /\ summary = None
  /\ audio_len = 0
  /\ segment_duration_ms = 0
  /\ start_ms = 0
  /\ split_segments = <<>>
  /\ split_outcome = "none"
  /\ extract_outcome = "none"
  /\ remove_outcome = "none"
  /\ fs = [p \in {} |-> <<>>]
  /\ temp_exists = FALSE
  /\ seg_files = {}
  /\ sent = <<>>
  /\ replies = <<>>
  /\ inflight = 0
  /\ summarize_calls = 0
  /\ summary_input = None
  /\ persisted = None
  /\ exit_code = "running"

\* a run of the program from the command line
Init ==
  /\ pc = "parse_arguments"
  /\ mode = "main"
  /\ input_ext \in InputExtensions
  /\ input_exists \in BOOLEAN
  /\ api_key \in BOOLEAN
  /\ max_size_mb = 0
  /\ safety_margin = 0
  /\ InitLocals

\* a call of split_audio with arbitrary parameters
InitSplit ==
  /\ pc = "split_audio"
  /\ mode = "split"
  /\ input_ext = ".mp3"
  /\ input_exists = TRUE
  /\ api_key = TRUE
  /\ \E prm \in SplitParams : max_size_mb = prm[1] /\ safety_margin = prm[2]
  /\ InitLocals

(* --------------------------- pre-flight -------------------------------- *)
\* a variant that validates the audio language only
InvalidLanguage_m(al, tl, sl) == al \notin SUPPORTED_LANGUAGES

\* for lang_arg in [audio, transcript, summary]: lang_arg not in SUPPORTED_LANGUAGES
InvalidLanguage(al, tl, sl) ==
  \E lang_arg \in {al, tl, sl} : lang_arg \notin SUPPORTED_LANGUAGES

\* parse_arguments: parser.error exits the process before main is entered
ParseArguments ==
  /\ pc = "parse_arguments"
  /\ \E al \in LangChoices, tl \in LangChoices, sl \in LangChoices,
        out \in OutputOptions :
       /\ args' = [audio_language |-> al, transcript_language |-> tl,
                   summary_language |-> sl, output |-> out]
       /\ IF InvalidLanguage(al, tl, sl)
          THEN pc' = "done" /\ exit_code' = "error"
          ELSE pc' = "main" /\ UNCHANGED exit_code
  /\ UNCHANGED <<mode, envVars, pathVars, audio_file_path, current_size,
                 directVars, segVars, summary, splitVars, extract_outcome,
                 remove_outcome,
                 outVars, temp_exists, seg_files, remoteVars>>

\* main: os.path.exists(input_file_path)
CheckInputExists ==
  /\ pc = "main"
  /\ IF input_exists
     THEN pc' = "load_api_key" /\ UNCHANGED exit_code
     ELSE pc' = "done" /\ exit_code' = "returned"
  /\ UNCHANGED <<mode, envVars, args, pathVars, audio_file_path, current_size,
                 directVars, segVars, summary, splitVars, extract_outcome,
                 remove_outcome,
                 outVars, temp_exists, seg_files, remoteVars>>

\* main: load_api_key() and, when it does not raise, generate_output_paths
LoadApiKey ==
  /\ pc = "load_api_key"
  /\ IF api_key
     THEN /\ transcription_path' = generate_output_paths(args.output)[1]
          /\ summary_path' = generate_output_paths(args.output)[2]
          /\ pc' = "classify"
          /\ UNCHANGED exit_code
     ELSE /\ pc' = "done"
          /\ exit_code' = "returned"
          /\ UNCHANGED pathVars
  /\ UNCHANGED <<mode, envVars, args, audio_file_path, current_size,
                 directVars, segVars, summary, splitVars, extract_outcome,
                 remove_outcome,
                 outVars, temp_exists, seg_files, remoteVars>>

(* --------------------------- extraction -------------------------------- *)
\* main: if is_video_file(input_file_path) ... else audio_file_path = input
Classify ==
  /\ pc = "classify"
  /\ IF is_video_file(input_ext)
     THEN pc' = "extract_audio" /\ UNCHANGED audio_file_path
     ELSE pc' = "size_check" /\ audio_file_path' = "input"
  /\ UNCHANGED <<mode, envVars, args, pathVars, current_size,
                 directVars, segVars, summary, splitVars, extract_outcome,
                 remove_outcome,
                 outVars, temp_exists, seg_files, remoteVars, exit_code>>

\* a variant of main that goes on after a failed extraction
AfterExtract_m(path) == "size_check"

\* main: if not audio_file_path: print(...); return
AfterExtract(path) == IF path = "none" THEN "done" ELSE "size_check"

\* extract_audio_from_video, and main's test of its result.  The decode may
\* raise before the temporary file is allocated; the export may raise after.
ExtractAudio ==
  /\ pc = "extract_audio"
  /\ \E decoded \in BOOLEAN, exported \in BOOLEAN :
       /\ temp_exists' = decoded
       /\ audio_file_path' = IF decoded /\ exported THEN "temp" ELSE "none"
       /\ extract_outcome' = IF decoded /\ exported THEN "ok" ELSE "failed"
       /\ pc' = AfterExtract(audio_file_path')
       /\ exit_code' = IF pc' = "done" THEN "returned" ELSE exit_code
  /\ UNCHANGED <<mode, envVars, args, pathVars, current_size,
                 directVars, segVars, summary, splitVars, remove_outcome,
                 outVars, seg_files, remoteVars>>

(* --------------------------- size check -------------------------------- *)
\* main: current_size_mb = file_size_in_mb(audio_file_path) and the test
\* current_size_mb <= max_size_bytes; the else branch calls
\* split_audio(audio_file_path, max_size_mb=MAX_SIZE_MB)
SizeCheck ==
  /\ pc = "size_check"
  /\ \E sz \in Sizes :
       /\ current_size' = sz
       /\ IF WithinLimit(sz)
          THEN pc' = "direct_transcribe" /\ UNCHANGED <<max_size_mb, safety_margin>>
          ELSE /\ pc' = "split_audio"
               /\ max_size_mb' = MAX_SIZE_MB
               /\ safety_margin' = DEFAULT_SAFETY_MARGIN
  /\ UNCHANGED <<mode, envVars, args, pathVars, audio_file_path,
                 directVars, segVars, summary, audio_len, segment_duration_ms,
                 start_ms, split_segments, split_outcome, extract_outcome,
                 remove_outcome,
                 outVars, temp_exists, seg_files, remoteVars, exit_code>>

(* ---------------------- remote calls and writes ------------------------ *)
\* transcribe_audio: the request is sent ...
IssueTranscription(what) ==
  /\ sent' = Append(sent, what)
  /\ inflight' = inflight + 1
  /\ UNCHANGED <<replies, summarize_calls, summary_input>>

\* ... and the blocking call returns r: the text, or None after an exception
ReturnTranscription(r) ==
  /\ replies' = Append(replies, r)
  /\ inflight' = inflight - 1
  /\ UNCHANGED <<sent, summarize_calls, summary_input>>

\* summarize_transcript: the request leaves, carrying the transcript
IssueSummary(text) ==
  /\ summarize_calls' = summarize_calls + 1
  /\ summary_input' = Some(text)
  /\ inflight' = inflight + 1
  /\ UNCHANGED <<sent, replies>>

\* the blocking summarize_transcript call returns
ReturnSummary ==
  /\ inflight' = inflight - 1
  /\ UNCHANGED <<sent, replies, summarize_calls, summary_input>>

\* summarize_transcript returns None on any exception, else the stripped content
SummarizeResults == {None} \cup {Some(Strip(raw)) : raw \in RawSummaries}

\* with open(path, 'w') as f: f.write(text)
WriteFile(path, text) == fs' = (path :> text) @@ fs

\* a variant that skips the write when there is no text
WriteTranscript_m(text) ==
  IF text = <<>>
  THEN UNCHANGED <<fs, persisted>>
  ELSE WriteFile(transcription_path, text) /\ persisted' = Some(text)

\* the transcript is written to transcription_path
WriteTranscript(text) ==
  /\ WriteFile(transcription_path, text)
  /\ persisted' = Some(text)

\* a variant that writes the summary file whatever summarize_transcript returned
WriteSummaryIf_m(s) ==
  /\ WriteFile(summary_path, s.v)
  /\ UNCHANGED persisted

\* if summary: write it to summary_path, else only report
WriteSummaryIf(s) ==
  /\ IF Truthy(s) THEN WriteFile(summary_path, s.v) ELSE UNCHANGED fs
  /\ UNCHANGED persisted

(* ---------------------------- direct path ------------------------------ *)
DirectTranscribe ==
  /\ pc = "direct_transcribe"
  /\ IssueTranscription(WholeFile)
  /\ pc' = "direct_transcribe_wait"
  /\ UNCHANGED <<mode, envVars, args, pathVars, audio_file_path, current_size,
                 directVars, segVars, summary, splitVars, extract_outcome,
                 remove_outcome,
                 outVars, temp_exists, seg_files, exit_code>>

\* the call returns; if transcription: the transcript is saved
DirectTranscribeReturn ==
  /\ pc = "direct_transcribe_wait"
  /\ \E r \in TranscribeResults :
       /\ ReturnTranscription(r)
       /\ transcription' = r
       /\ IF Truthy(r)
          THEN WriteTranscript(r.v) /\ pc' = "direct_summarize"
          ELSE UNCHANGED outVars /\ pc' = "cleanup"
  /\ UNCHANGED <<mode, envVars, args, pathVars, audio_file_path, current_size,
                 segVars, summary, splitVars, extract_outcome,
                 remove_outcome,
                 temp_exists, seg_files, exit_code>>

DirectSummarize ==
  /\ pc = "direct_summarize"
  /\ IssueSummary(transcription.v)
  /\ pc' = "direct_summarize_wait"
  /\ UNCHANGED <<mode, envVars, args, pathVars, audio_file_path, current_size,
                 directVars, segVars, summary, splitVars, extract_outcome,
                 remove_outcome,
                 outVars, temp_exists, seg_files, exit_code>>

DirectSummarizeReturn ==
  /\ pc = "direct_summarize_wait"
  /\ ReturnSummary
  /\ \E r \in SummarizeResults :
       /\ summary' = r
       /\ WriteSummaryIf(r)
  /\ pc' = "cleanup"
  /\ UNCHANGED <<mode, envVars, args, pathVars, audio_file_path, current_size,
                 directVars, segVars, splitVars, extract_outcome,
                 remove_outcome,
                 temp_exists, seg_files, exit_code>>

(* ----------------------------- split_audio ----------------------------- *)
\* a variant that returns the segments exported before the exception
OnSplitFailure_m(parts) == parts

\* except Exception: print(...); return []
OnSplitFailure(parts) == <<>>

\* where control goes when split_audio returns
AfterSplit == IF mode = "main" THEN "segment_loop" ELSE "done"

\* split_audio up to the loop: the decode may raise (return []); otherwise
\* the segment duration is computed and the walk starts at 0
SplitDecode ==
  /\ pc = "split_audio"
  /\ \/ /\ split_outcome' = "decode_failed"
        /\ segments' = OnSplitFailure(<<>>)
        /\ pc' = AfterSplit
        /\ UNCHANGED <<audio_len, segment_duration_ms, start_ms, split_segments>>
     \/ \E d \in Durations(max_size_mb, safety_margin) :
          /\ audio_len' = d
          /\ segment_duration_ms' =
               SegmentDurationMs(MaxSizeBytes(max_size_mb, safety_margin))
          /\ split_segments' = <<>>
          /\ start_ms' = 0
          /\ split_outcome' = "running"
          /\ pc' = "split_loop"
          /\ UNCHANGED segments
  /\ UNCHANGED <<mode, envVars, args, pathVars, audio_file_path, current_size,
                 directVars, seg_idx, all_transcriptions, combined_transcription,
                 summary, max_size_mb, safety_margin, extract_outcome,
                 remove_outcome,
                 outVars, temp_exists, seg_files, remoteVars, exit_code>>

\* one iteration of while start_ms < len(audio): the window
\* [start_ms, start_ms + segment_duration_ms) is exported as part
\* len(segments) + 1; an export that raises makes split_audio return [],
\* whatever was written so far staying on disk
SplitIterate ==
  /\ pc = "split_loop"
  /\ start_ms < audio_len
  /\ Len(split_segments) < IterCap
  /\ LET end_ms == start_ms + segment_duration_ms
         n == Len(split_segments) + 1
     IN  \/ /\ split_segments' =
                 Append(split_segments, [n |-> n, start |-> start_ms, end |-> end_ms])
            /\ seg_files' = seg_files \cup {n}
            /\ start_ms' = end_ms
            /\ UNCHANGED <<pc, segments, split_outcome>>
         \/ /\ \E left \in BOOLEAN :
                 seg_files' = IF left THEN seg_files \cup {n} ELSE seg_files
            /\ split_outcome' = "export_failed"
            /\ segments' = OnSplitFailure(split_segments)
            /\ pc' = AfterSplit
            /\ UNCHANGED <<split_segments, start_ms>>
  /\ UNCHANGED <<mode, envVars, args, pathVars, audio_file_path, current_size,
                 directVars, seg_idx, all_transcriptions, combined_transcription,
                 summary, max_size_mb, safety_margin, audio_len,
                 segment_duration_ms, extract_outcome,
                 remove_outcome, outVars, temp_exists,
                 remoteVars, exit_code>>

\* the loop condition fails: return segments
SplitReturn ==
  /\ pc = "split_loop"
  /\ ~(start_ms < audio_len)
  /\ segments' = split_segments
  /\ split_outcome' = "returned"
  /\ pc' = AfterSplit
  /\ UNCHANGED <<mode, envVars, args, pathVars, audio_file_path, current_size,
                 directVars, seg_idx, all_transcriptions, combined_transcription,
                 summary, max_size_mb, safety_margin, audio_len,
                 segment_duration_ms, start_ms, split_segments, extract_outcome,
                 remove_outcome,
                 outVars, temp_exists, seg_files, remoteVars, exit_code>>

(* --------------------------- segmented path ---------------------------- *)
\* a variant that keeps a (blank) entry for a segment without text
Collect_m(all, r) == Append(all, r.v)

\* if segment_transcription: all_transcriptions.append(segment_transcription)
Collect(all, r) == IF Truthy(r) THEN Append(all, r.v) ELSE all

\* a variant that submits a failed segment again
NextSegment_m(i, r) == IF r.some THEN i + 1 ELSE i

\* the for loop moves to the next segment whatever the call returned
NextSegment(i, r) == i + 1

\* for segment in segments: transcribe_audio(segment, ...)
SegmentTranscribe ==
  /\ pc = "segment_loop"
  /\ seg_idx < Len(segments)
  /\ IssueTranscription(segments[seg_idx + 1].n)
  /\ pc' = "segment_wait"
  /\ UNCHANGED <<mode, envVars, args, pathVars, audio_file_path, current_size,
                 directVars, segVars, summary, splitVars, extract_outcome,
                 remove_outcome,
                 outVars, temp_exists, seg_files, exit_code>>

\* the call returns; if segment_transcription: append it
SegmentTranscribeReturn ==
  /\ pc = "segment_wait"
  /\ \E r \in TranscribeResults :
       /\ ReturnTranscription(r)
       /\ all_transcriptions' = Collect(all_transcriptions, r)
       /\ seg_idx' = NextSegment(seg_idx, r)
  /\ pc' = "segment_loop"
  /\ UNCHANGED <<mode, envVars, args, pathVars, audio_file_path, current_size,
                 directVars, segments, combined_transcription, summary,
                 splitVars, extract_outcome,
                 remove_outcome, outVars, temp_exists, seg_files,
                 exit_code>>

\* after the loop: combined_transcription = "\n".join(all_transcriptions),
\* written to transcription_path
Aggregate ==
  /\ pc = "segment_loop"
  /\ seg_idx = Len(segments)
  /\ combined_transcription' = Join(<<NL>>, all_transcriptions)
  /\ WriteTranscript(combined_transcription')
  /\ pc' = "segmented_summarize"
  /\ UNCHANGED <<mode, envVars, args, pathVars, audio_file_path, current_size,
                 directVars, segments, seg_idx, all_transcriptions, summary,
                 splitVars, extract_outcome,
                 remove_outcome, temp_exists, seg_files,
                 remoteVars, exit_code>>

SegmentedSummarize ==
  /\ pc = "segmented_summarize"
  /\ IssueSummary(combined_transcription)
  /\ pc' = "segmented_summarize_wait"
  /\ UNCHANGED <<mode, envVars, args, pathVars, audio_file_path, current_size,
                 directVars, segVars, summary, splitVars, extract_outcome,
                 remove_outcome,
                 outVars, temp_exists, seg_files, exit_code>>

SegmentedSummarizeReturn ==
  /\ pc = "segmented_summarize_wait"
  /\ ReturnSummary
  /\ \E r \in SummarizeResults :
       /\ summary' = r
       /\ WriteSummaryIf(r)
  /\ pc' = "cleanup"
  /\ UNCHANGED <<mode, envVars, args, pathVars, audio_file_path, current_size,
                 directVars, segVars, splitVars, extract_outcome,
                 remove_outcome,
                 temp_exists, seg_files, exit_code>>

(* ------------------------------ cleanup -------------------------------- *)
\* os.path.exists(path) for the working audio path
Exists(path) == IF path = "temp" THEN temp_exists ELSE path = "input" /\ input_exists

\* a variant that removes the working audio file of any input
ShouldRemove_m(video, path) == path # "none" /\ Exists(path)

\* if is_video_file(input_file_path) and audio_file_path and
\* os.path.exists(audio_file_path)
ShouldRemove(video, path) == video /\ path # "none" /\ Exists(path)

\* a variant in which the file stays although os.remove reported no error
AfterRemove_m(existed, removed) == existed

\* os.remove(path): the file is gone unless the call raised
AfterRemove(existed, removed) == IF removed THEN FALSE ELSE existed

\* the cleanup at the end of main: try os.remove(audio_file_path), a
\* failure being only reported
Cleanup ==
  /\ pc = "cleanup"
  /\ IF ShouldRemove(is_video_file(input_ext), audio_file_path)
     THEN \E removed \in BOOLEAN :
            /\ remove_outcome' = IF removed THEN "removed" ELSE "failed"
            /\ temp_exists' = IF audio_file_path = "temp"
                              THEN AfterRemove(temp_exists, removed)
                              ELSE temp_exists
            /\ input_exists' = IF audio_file_path = "input"
                               THEN AfterRemove(input_exists, removed)
                               ELSE input_exists
     ELSE UNCHANGED <<temp_exists, input_exists, remove_outcome>>
  /\ pc' = "done"
  /\ exit_code' = "returned"
  /\ UNCHANGED <<mode, input_ext, api_key, args, pathVars, audio_file_path,
                 current_size, directVars, segVars, summary, splitVars,
                 extract_outcome, outVars, seg_files, remoteVars>>

(* --------------------------- specifications ---------------------------- *)
Next ==
  \/ ParseArguments
  \/ CheckInputExists
  \/ LoadApiKey
  \/ Classify
  \/ ExtractAudio
  \/ SizeCheck
  \/ DirectTranscribe
  \/ DirectTranscribeReturn
  \/ DirectSummarize
  \/ DirectSummarizeReturn
  \/ SplitDecode
  \/ SplitIterate
  \/ SplitReturn
  \/ SegmentTranscribe
  \/ SegmentTranscribeReturn
  \/ Aggregate
  \/ SegmentedSummarize
  \/ SegmentedSummarizeReturn
  \/ Cleanup

Spec == Init /\ [][Next]_vars

NextSplit ==
  \/ SplitDecode
  \/ SplitIterate
  \/ SplitReturn

SpecSplit == InitSplit /\ [][NextSplit]_vars

\* main is one sequential thread: whenever a step is possible (every
\* external call returns), it is eventually taken
SpecLive == Init /\ [][Next]_vars /\ WF_vars(Next)

(* ------------------------------ properties ----------------------------- *)
DirectPcs == {"direct_transcribe", "direct_transcribe_wait",
              "direct_summarize", "direct_summarize_wait"}
Finishing == {"cleanup", "done"}
SplitFailed == split_outcome \in {"decode_failed", "export_failed"}
\* a run of main that took the segmented branch
SegmentedRun == mode = "main" /\ split_outcome # "none"

IsSome(r) == r.some
ValuesOf(rs) == [i \in DOMAIN rs |-> rs[i].v]
CeilDiv(a, b) == (a + b - 1) \div b

\* C1: a working audio file larger than MAX_SIZE_MB megabytes always takes
\* the segmented branch: it is never on the direct path and never sent whole
\* in one transcription request.
C1_OversizedIsSegmented ==
  (Measured /\ ~SizeMbLeq(current_size, MAX_SIZE_MB)) =>
     /\ pc \notin DirectPcs
     /\ \A i \in DOMAIN sent : sent[i] # WholeFile

\* C2: when the working audio is at most MAX_SIZE_MB megabytes, split_audio
\* is never invoked and exactly one transcription request, for the whole
\* file, is issued.
C2_SmallFileDirectOnly ==
  (mode = "main" /\ Measured /\ SizeMbLeq(current_size, MAX_SIZE_MB)) =>
     /\ split_outcome = "none"
     /\ pc \notin {"split_audio", "split_loop", "segment_loop", "segment_wait"}
     /\ seg_files = {}
     /\ sent = IF pc = "direct_transcribe" THEN <<>> ELSE <<WholeFile>>

C2_Witness ==
  /\ pc = "done"
  /\ current_size = [mib |-> MAX_SIZE_MB, rem |-> 0]
  /\ split_outcome = "none"
  /\ sent = <<WholeFile>>

\* C3: for every duration D and budget, the windows split_audio returns
\* start at 0, S, 2S, ... with S = floor(budget / 16000 * 1000), window k is
\* [k*S, min((k+1)*S, D)), and their number is ceil(D / S) (0 when D = 0).
C3_WindowsByFloorFormula ==
  (split_outcome = "returned") =>
     LET S == MaxSizeBytes(max_size_mb, safety_margin) \div BytesPerMs
     IN  /\ audio_len = 0 => segments = <<>>
         /\ S > 0 =>
              /\ Len(segments) = CeilDiv(audio_len, S)
              /\ \A k \in DOMAIN segments :
                   SliceOf(segments[k], audio_len) =
                     [lo |-> (k - 1) * S, hi |-> Min(k * S, audio_len)]

\* C4 (as stated): in the segmented path the transcript written is the
\* newline-join of the texts of the segments whose transcription succeeded,
\* in segment order.
C4_JoinOfSuccessful ==
  (SegmentedRun /\ persisted.some) =>
     persisted.v = Join(<<NL>>, ValuesOf(SelectSeq(replies, IsSome)))

\* C4 (amended): in the segmented path the segments are submitted in
\* increasing order and the transcript written is the newline-join, in that
\* order, of the non-empty texts returned; a segment whose transcription
\* failed or returned empty text contributes nothing.
C4_JoinOfNonEmpty ==
  SegmentedRun =>
     /\ \A i \in DOMAIN sent : sent[i] = i /\ segments[i].n = i
     /\ persisted.some =>
          /\ Len(replies) = Len(segments)
          /\ persisted.v = Join(<<NL>>, ValuesOf(SelectSeq(replies, Truthy)))
     /\ pc = "segmented_summarize" => fs[transcription_path] = persisted.v

C4_Witness ==
  /\ pc = "done"
  /\ replies = <<Some(<<"a">>), None, Some(<<"b">>)>>
  /\ persisted = Some(<<"a", NL, "b">>)

\* C5 (as stated): once transcription has run, on either path, the
\* transcript file is written, even when the recovered text is empty.
C5_TranscriptAlwaysWritten ==
  (mode = "main" /\ Measured /\ pc \in Finishing) =>
     transcription_path \in DOMAIN fs

\* C5 (amended): on the segmented path the transcript file is always
\* written after the segment loop, empty when no segment gave text; on the
\* direct path it is written exactly when the whole-file transcription
\* returned non-empty text, and otherwise neither output file is written and
\* no summary is requested.
C5_TranscriptWrittenPerPath ==
  (mode = "main" /\ Measured /\ pc \in Finishing) =>
     IF split_outcome = "none"
     THEN /\ persisted.some <=> Truthy(transcription)
          /\ transcription_path \in DOMAIN fs <=> Truthy(transcription)
          /\ ~Truthy(transcription) => DOMAIN fs = {} /\ summarize_calls = 0
     ELSE /\ persisted.some
          /\ transcription_path \in DOMAIN fs
          /\ (\A i \in DOMAIN replies : ~Truthy(replies[i])) =>
               persisted = Some(<<>>)

C5_Witness ==
  /\ pc = "done"
  /\ sent = <<1>>
  /\ replies = <<Some(<<>>)>>
  /\ persisted = Some(<<>>)
  /\ transcription_path \in DOMAIN fs

\* C6: in a segmented run where every segment's transcription fails, the
\* transcript file exists with empty content whatever the summarization
\* request returns, and one summarization request is issued on the empty text.
C6_AllFailedEmptyTranscript ==
  (SegmentedRun /\ pc \in Finishing /\ split_outcome = "returned"
     /\ segments # <<>> /\ \A i \in DOMAIN replies : replies[i] = None) =>
     /\ transcription_path \in DOMAIN fs
     /\ fs[transcription_path] = <<>>
     /\ summarize_calls = 1
     /\ summary_input = Some(<<>>)

\* C7: once the transcript file has been written, its content stays what
\* was written, for every --output.
C7_TranscriptNeverOverwritten ==
  persisted.some =>
     /\ transcription_path \in DOMAIN fs
     /\ fs[transcription_path] = persisted.v

\* C8: a summarization request is issued only after the transcript write
\* and at most once; a run that wrote the transcript issues exactly one; if
\* it yields no summary, the transcript file with its content is the only
\* output file.
C8_OneSummaryAfterTranscript ==
  /\ summarize_calls <= 1
  /\ summarize_calls = 1 => persisted.some
  /\ (pc \in Finishing /\ persisted.some) => summarize_calls = 1
  /\ (pc \in Finishing /\ persisted.some /\ ~Truthy(summary)) =>
        fs = (transcription_path :> persisted.v)

C8_Witness ==
  /\ pc = "done"
  /\ persisted.some
  /\ summarize_calls = 1
  /\ summary = None
  /\ fs = (transcription_path :> persisted.v)

\* C9: when the input is a video and the extraction fails, the run halts:
\* no size check, no segmentation, no remote request, no output file.
C9_ExtractionFailureHalts ==
  extract_outcome = "failed" =>
     /\ pc = "done"
     /\ exit_code = "returned"
     /\ ~Measured
     /\ split_outcome = "none"
     /\ sent = <<>>
     /\ summarize_calls = 0
     /\ inflight = 0
     /\ DOMAIN fs = {}

C9_Witness ==
  /\ is_video_file(input_ext)
  /\ extract_outcome = "failed"
  /\ temp_exists
  /\ pc = "done"

\* C10 (as stated): when split_audio fails, the run does not persist a
\* transcript or request a summary.
C10_SegmentationFailureFatal ==
  (mode = "main" /\ SplitFailed) =>
     /\ ~persisted.some
     /\ summarize_calls = 0
     /\ DOMAIN fs = {}

\* C10 (amended): when split_audio fails it returns the empty list and the
\* run continues as with zero segments: no transcription request is issued,
\* an empty transcript is written and one summarization request is issued
\* on the empty text.
C10_SegmentationFailureContinues ==
  (mode = "main" /\ SplitFailed) =>
     /\ segments = <<>>
     /\ sent = <<>>
     /\ pc \in {"segment_loop", "segmented_summarize",
                "segmented_summarize_wait", "cleanup", "done"}
     /\ pc # "segment_loop" =>
          /\ persisted = Some(<<>>)
          /\ transcription_path \in DOMAIN fs
     /\ pc \in Finishing => summarize_calls = 1 /\ summary_input = Some(<<>>)

C10_Witness ==
  /\ pc = "done"
  /\ split_outcome = "export_failed"
  /\ seg_files # {}
  /\ persisted = Some(<<>>)
  /\ summarize_calls = 1

\* C11 (as stated): after a video run that reaches the end of main, the
\* extracted temporary audio file no longer exists.
C11_TempAlwaysRemoved ==
  (mode = "main" /\ pc = "done" /\ extract_outcome = "ok") => ~temp_exists

\* C11 (amended): after a video run that reaches the end of main, os.remove
\* has been tried on the extracted temporary audio file, which is gone
\* unless that call failed; every segment file written by split_audio is
\* still on disk; and the cleanup step, failing or not, changes neither
\* output file.
C11_CleanupRemovesTempOnly ==
  /\ []((mode = "main" /\ pc = "done" /\ extract_outcome = "ok") =>
          /\ remove_outcome \in {"removed", "failed"}
          /\ temp_exists <=> remove_outcome = "failed"
          /\ \A k \in 1 .. Len(split_segments) : k \in seg_files)
  /\ [][/\ seg_files \subseteq seg_files'
        /\ pc = "cleanup" => fs' = fs /\ persisted' = persisted]_vars

C11_Witness ==
  /\ pc = "done"
  /\ extract_outcome = "ok"
  /\ remove_outcome = "removed"
  /\ ~temp_exists
  /\ seg_files = {1, 2}
  /\ DOMAIN fs # {}

\* C12: the input file is never deleted: no step changes its existence, and
\* for an audio input the cleanup removes nothing.
C12_InputNeverDeleted ==
  /\ [](~is_video_file(input_ext) => remove_outcome = "none")
  /\ [](remove_outcome = "removed" => audio_file_path = "temp")
  /\ [][input_exists' = input_exists]_vars

C12_Witness ==
  /\ pc = "done"
  /\ ~is_video_file(input_ext)
  /\ audio_file_path = "input"
  /\ Measured
  /\ input_exists
  /\ remove_outcome = "none"

\* nothing has been extracted, measured, split, sent or written
NoWork ==
  /\ extract_outcome = "none"
  /\ ~temp_exists
  /\ ~Measured
  /\ split_outcome = "none"
  /\ seg_files = {}
  /\ sent = <<>>
  /\ summarize_calls = 0
  /\ inflight = 0
  /\ DOMAIN fs = {}

LanguagesSupported ==
  {args.audio_language, args.transcript_language, args.summary_language}
    \subseteq SUPPORTED_LANGUAGES

\* C13: an unsupported language code ends the run before main is entered;
\* a missing input file or a missing API key makes main return; in all
\* three cases nothing is extracted, sent or written.
C13_PreflightNoWork ==
  (mode = "main" /\ pc # "parse_arguments") =>
     /\ ~LanguagesSupported => pc = "done" /\ exit_code = "error" /\ NoWork
     /\ (~input_exists /\ pc # "main") => pc = "done" /\ NoWork
     /\ (~api_key /\ pc \notin {"main", "load_api_key"}) =>
          pc = "done" /\ NoWork /\ transcription_path = <<>>

C13_Witness ==
  /\ pc = "done"
  /\ exit_code = "returned"
  /\ LanguagesSupported
  /\ input_exists
  /\ ~api_key
  /\ NoWork

WaitPcs == {"direct_transcribe_wait", "direct_summarize_wait",
            "segment_wait", "segmented_summarize_wait"}

\* C14: at most one remote request is in flight; a transcription request
\* is issued only after the previous one returned; in the segmented path
\* the segments are submitted in order, each exactly once whatever it
\* returns; at most one summarization request is issued.
C14_SequentialNoRetry ==
  /\ inflight \in {0, 1}
  /\ inflight = 1 <=> pc \in WaitPcs
  /\ Len(sent) - Len(replies) \in {0, 1}
  /\ summarize_calls <= 1
  /\ \A i \in DOMAIN sent : \A j \in DOMAIN sent : i # j => sent[i] # sent[j]
  /\ SegmentedRun =>
       /\ \A i \in DOMAIN sent : sent[i] = i
       /\ Len(sent) <= Len(segments)
       /\ pc \notin {"split_audio", "split_loop", "segment_loop", "segment_wait"}
            => Len(sent) = Len(segments)

C14_Witness ==
  /\ pc = "segment_wait"
  /\ sent = <<1, 2, 3>>
  /\ replies = <<None, None>>
  /\ inflight = 1

\* C15: every run of main eventually reaches its terminal state, whatever
\* the outcomes of the external calls.
C15_Terminates == <>(pc = "done")

C15_Witness ==
  /\ pc = "done"
  /\ exit_code = "returned"
  /\ Len(segments) = 3
  /\ remove_outcome = "failed"

\* nominal size in bytes, at the export bitrate, of the slice a window holds
NominalBytes(w) ==
  (SliceOf(w, audio_len).hi - SliceOf(w, audio_len).lo) * BytesPerMs

\* C16: every segment split_audio returns, and every window it exports
\* with a positive segment duration, has a nominal size of at most
\* max_size_mb * 1024 * 1024 - safety_margin bytes, hence (the margin not
\* being negative) of at most max_size_mb * 1024 * 1024 bytes.
C16_SegmentsWithinBudget ==
  LET budget == max_size_mb * 1024 * 1024 - safety_margin
      produced == IF segment_duration_ms > 0 THEN split_segments ELSE segments
  IN  /\ segment_duration_ms > 0 => segment_duration_ms * BytesPerMs <= budget
      /\ \A k \in DOMAIN produced :
           /\ NominalBytes(produced[k]) <= budget
           /\ safety_margin >= 0 =>
                NominalBytes(produced[k]) <= max_size_mb * 1024 * 1024

C16_Witness ==
  /\ split_outcome = "returned"
  /\ max_size_mb = MAX_SIZE_MB
  /\ safety_margin = DEFAULT_SAFETY_MARGIN
  /\ segment_duration_ms = 1638087
  /\ Len(segments) = 3
  /\ NominalBytes(segments[1]) = 26209392

\* C17: no extracted-audio temporary file remains on disk when a run has
\* exited.
C17_NoTempLeftAtExit ==
  (mode = "main" /\ pc = "done") => ~temp_exists

\* C18: the windowing loop terminates for every duration and every budget:
\* each iteration that stays in the loop moves start_ms forward, towards
\* len(audio).
C18_LoopAdvances ==
  [][(pc = "split_loop" /\ pc' = "split_loop") => start_ms' > start_ms]_vars

\* C19: split_audio returns either all ceil(D / S) segments or the empty
\* list, never a proper prefix; after an export failure the segment files
\* already written stay on disk, no segment is submitted and the transcript
\* written is empty.
C19_AllOrNothing ==
  mode = "main" =>
     /\ split_outcome = "returned" =>
          /\ segments = split_segments
          /\ segment_duration_ms > 0
          /\ Len(segments) = CeilDiv(audio_len, segment_duration_ms)
     /\ split_outcome # "returned" => segments = <<>>
     /\ split_outcome = "export_failed" =>
          /\ \A k \in 1 .. Len(split_segments) : k \in seg_files
          /\ sent = <<>>
          /\ persisted.some => persisted = Some(<<>>)
          /\ pc \in Finishing => persisted.some

C19_Witness ==
  /\ pc = "done"
  /\ split_outcome = "export_failed"
  /\ Len(split_segments) = 2
  /\ {1, 2} \subseteq seg_files
  /\ segments = <<>>
  /\ sent = <<>>
  /\ persisted = Some(<<>>)

====
